---- MODULE Spec2Model ----
(***************************************************************************)
(* Stack (bump) allocators of gilzoide/c-allocators.                       *)
(*                                                                         *)
(*   dsa_double_stack_allocator  src/double_stack_allocator.h              *)
(*   sa_stack_allocator          src/stack_allocator.h                     *)
(*                                                                         *)
(* Every C function is an operator that maps the allocator struct (and the *)
(* arguments) to the struct after the call and the value returned; the     *)
(* actions Call_<function> apply them to the allocator of the program.     *)
(* size_t is WordBits wide: sums and differences of sizes are taken modulo *)
(* Word.  A pointer is an address, NULL is address 0, and buffer + offset  *)
(* is the address of byte `offset` of the buffer (NULL + 0 is NULL).  A    *)
(* free of a pointer that is no live block is undefined: the runs in which *)
(* the program goes on are modelled, and a run that aborts there is their  *)
(* prefix.                                                                 *)
(***************************************************************************)
EXTENDS Integers, FiniteSets, Sequences, TLC

\* ------------------------------------------------------------------ bounds
WordBits == 3
MaxCapacity == 3

Word == 2 ^ WordBits
SizeT == 0 .. (Word - 1)
\* capacities a program constructs its allocators with
Capacities == 0 .. MaxCapacity
\* sizes the callers pass when no addition is meant to wrap (one more than
\* any capacity, so that requests beyond the buffer happen); markers are any
\* size_t value
Args == 0 .. (MaxCapacity + 1)

\* ---------------------------------------------------------------- pointers
NULL == 0
\* the block malloc hands out, and the buffer a caller supplies itself
HeapBase == Word
CallerBase == 2 * Word
HeapAddrs == {HeapBase}
\* the buffers of the second allocator, where two are run side by side: the
\* block malloc hands out for it and the buffer its caller supplies
TwinHeapBase == 3 * Word
TwinCallerBase == 4 * Word

\* malloc(size): NULL on failure, else a block that is not live yet
\* (malloc(0) may return either, as the C standard allows)
MallocResults(h) == {NULL} \cup (HeapAddrs \ h)

\* free(p) on the live blocks h: the blocks live afterwards.  free(NULL) does
\* nothing and freeing a live block removes it; a pointer that is no live
\* block (freed before, or never returned by malloc) is an invalid free,
\* which leaves the live blocks as they are in the runs that go on.
Free(h, p) == h \ {p}

\* the addresses a pointer can hold: pointer arithmetic is taken modulo this,
\* and pointers are compared as the addresses they hold (flat memory)
PtrSpace == 8 * Word

\* the sizes of the elements iterated over (sizeof(type)), and the steps after
\* which a loop still running is given up: more than any loop over the bytes
\* of a buffer takes
ElemSizes == 1 .. MaxCapacity
MaxSteps == MaxCapacity + 1

\* for(id = first; id <= limit; id++) when dir = 1 and
\* for(id = first; id >= limit; id--) when dir = -1, over elements of s bytes:
\* the addresses the body is run with, and whether the loop was still running
\* after fuel steps
RECURSIVE Loop(_, _, _, _, _)
Loop(id, limit, dir, s, fuel) ==
    IF ~(IF dir = 1 THEN id <= limit ELSE id >= limit)
    THEN [visited |-> <<>>, more |-> FALSE]
    ELSE IF fuel = 0
    THEN [visited |-> <<>>, more |-> TRUE]
    ELSE LET r == Loop((id + dir * s) % PtrSpace, limit, dir, s, fuel - 1)
         IN [visited |-> <<id>> \o r.visited, more |-> r.more]

\* ------------------------------------------------- double stack allocator
\* mutant: the top of the int-indexed allocator, the last free byte
DSA_NEW_inclusive(buffer, capacity) ==
    [buffer |-> buffer, capacity |-> capacity, bottom |-> 0,
     top |-> (capacity - 1) % Word]

\* DSA_NEW(buffer, capacity)
DSA_NEW(buffer, capacity) ==
    [buffer |-> buffer, capacity |-> capacity, bottom |-> 0, top |-> capacity]

dsa_new(buffer, capacity) == DSA_NEW(buffer, capacity)

\* mutant: the capacity asked for is kept when malloc failed
dsa_init_with_capacity_unchecked(memory, capacity, p) ==
    [mem |-> [buffer |-> p, capacity |-> capacity, bottom |-> 0, top |-> capacity],
     ret |-> IF p # NULL THEN 1 ELSE 0]

\* p is what DSA_MALLOC(capacity) returned
dsa_init_with_capacity(memory, capacity, p) ==
    LET malloc_success == IF p # NULL THEN 1 ELSE 0
        cap == (malloc_success * capacity) % Word
    IN [mem |-> [buffer |-> p, capacity |-> cap, bottom |-> 0, top |-> cap],
        ret |-> malloc_success]

\* a zero-initialized allocator: (dsa_double_stack_allocator){}
DsaZero == [buffer |-> NULL, capacity |-> 0, bottom |-> 0, top |-> 0]

\* mutant: the sizes are zeroed and the pointer is left
dsa_release_dangling(memory) ==
    [memory EXCEPT !.capacity = 0, !.bottom = 0, !.top = 0]

\* the struct dsa_release leaves (the action frees the buffer)
dsa_release(memory) == DsaZero

\* mutant: top is decreased before the check, also when the call fails
dsa_alloc_top_early(memory, size) ==
    LET top == (memory.top - size) % Word
    IN IF memory.top < (memory.bottom + size) % Word
       THEN [mem |-> [memory EXCEPT !.top = top], ret |-> NULL]
       ELSE [mem |-> [memory EXCEPT !.top = top], ret |-> memory.buffer + top]

\* mutant: the address is taken before top is decreased
dsa_alloc_top_stale(memory, size) ==
    IF memory.top < (memory.bottom + size) % Word
    THEN [mem |-> memory, ret |-> NULL]
    ELSE [mem |-> [memory EXCEPT !.top = (memory.top - size) % Word],
          ret |-> memory.buffer + memory.top]

dsa_alloc_top(memory, size) ==
    IF memory.top < (memory.bottom + size) % Word
    THEN [mem |-> memory, ret |-> NULL]
    ELSE LET top == (memory.top - size) % Word
         IN [mem |-> [memory EXCEPT !.top = top], ret |-> memory.buffer + top]

\* mutant: the check leaves the size out
dsa_alloc_bottom_nosize(memory, size) ==
    IF memory.bottom > memory.top
    THEN [mem |-> memory, ret |-> NULL]
    ELSE [mem |-> [memory EXCEPT !.bottom = (memory.bottom + size) % Word],
          ret |-> memory.buffer + memory.bottom]

dsa_alloc_bottom(memory, size) ==
    IF (memory.bottom + size) % Word > memory.top
    THEN [mem |-> memory, ret |-> NULL]
    ELSE [mem |-> [memory EXCEPT !.bottom = (memory.bottom + size) % Word],
          ret |-> memory.buffer + memory.bottom]

\* mutant: the top of the int-indexed allocator, the last free byte
dsa_clear_top_last(memory) == [memory EXCEPT !.top = (memory.capacity - 1) % Word]

dsa_clear_top(memory) == [memory EXCEPT !.top = memory.capacity]

\* mutant: both sides are cleared
dsa_clear_bottom_both(memory) == [memory EXCEPT !.bottom = 0, !.top = memory.capacity]

dsa_clear_bottom(memory) == [memory EXCEPT !.bottom = 0]

dsa_get_top_marker(memory) == memory.top

dsa_get_bottom_marker(memory) == memory.bottom

\* mutant: the marker is not checked against the capacity
dsa_clear_top_marker_unchecked(memory, marker) ==
    IF marker > memory.top
    THEN [memory EXCEPT !.top = marker]
    ELSE memory

\* mutant: the check of the int-indexed allocator, marker < capacity
dsa_clear_top_marker_strict(memory, marker) ==
    IF marker > memory.top /\ marker < memory.capacity
    THEN [memory EXCEPT !.top = marker]
    ELSE memory

dsa_clear_top_marker(memory, marker) ==
    IF marker > memory.top /\ marker <= memory.capacity
    THEN [memory EXCEPT !.top = marker]
    ELSE memory

\* mutant: the marker is taken whatever it is
dsa_clear_bottom_marker_any(memory, marker) ==
    [memory EXCEPT !.bottom = marker]

dsa_clear_bottom_marker(memory, marker) ==
    IF marker < memory.bottom
    THEN [memory EXCEPT !.bottom = marker]
    ELSE memory

\* mutant: the check of dsa_peek_bottom, taken over for the top
dsa_peek_top_mirrored(memory, size) ==
    IF memory.top < size
    THEN NULL
    ELSE memory.buffer + memory.top

dsa_peek_top(memory, size) ==
    IF (memory.capacity - memory.top) % Word < size
    THEN NULL
    ELSE memory.buffer + memory.top

dsa_peek_bottom(memory, size) ==
    IF memory.bottom < size
    THEN NULL
    ELSE memory.buffer + memory.bottom - size

\* dsa_pop_bottom and dsa_pop_top are called by the tests and defined in no
\* source file at hand: they are modelled from the specification, as relative
\* rollbacks by size bytes that stop at the empty side
dsa_pop_bottom(memory, size) ==
    IF size > memory.bottom
    THEN [memory EXCEPT !.bottom = 0]
    ELSE [memory EXCEPT !.bottom = (memory.bottom - size) % Word]

\* mutant: the size is added without the check
dsa_pop_top_unclamped(memory, size) ==
    [memory EXCEPT !.top = (memory.top + size) % Word]

dsa_pop_top(memory, size) ==
    IF size > (memory.capacity - memory.top) % Word
    THEN [memory EXCEPT !.top = memory.capacity]
    ELSE [memory EXCEPT !.top = (memory.top + size) % Word]

\* DSA_FOREACH_BOTTOM(type, identifier, memory), size being sizeof(type)
DSA_FOREACH_BOTTOM(memory, size) ==
    Loop(memory.buffer, dsa_peek_bottom(memory, size), 1, size, MaxSteps)

DSA_FOREACH_BOTTOM_REVERSE(memory, size) ==
    Loop(dsa_peek_bottom(memory, size), memory.buffer, -1, size, MaxSteps)

DSA_FOREACH_TOP(memory, size) ==
    Loop((memory.buffer + memory.capacity - size) % PtrSpace,
         dsa_peek_top(memory, size), -1, size, MaxSteps)

DSA_FOREACH_TOP_REVERSE(memory, size) ==
    Loop(dsa_peek_top(memory, size),
         (memory.buffer + memory.capacity - size) % PtrSpace, 1, size, MaxSteps)

\* mutant: the count of the int-indexed allocator, whose top is the last free byte
dsa_available_memory_inclusive(memory) ==
    (memory.top + 1 - memory.bottom) % Word

dsa_available_memory(memory) == (memory.top - memory.bottom) % Word

dsa_used_memory(memory) ==
    (memory.bottom + ((memory.capacity - memory.top) % Word)) % Word

\* -------------------------------------------------------- stack allocator
SA_NEW(buffer, capacity) ==
    [buffer |-> buffer, capacity |-> capacity, marker |-> 0]

sa_new(buffer, capacity) == SA_NEW(buffer, capacity)

\* p is what SA_MALLOC(capacity) returned
sa_init_with_capacity(memory, capacity, p) ==
    LET malloc_success == IF p # NULL THEN 1 ELSE 0
    IN [mem |-> [buffer |-> p, capacity |-> (malloc_success * capacity) % Word,
                 marker |-> 0],
        ret |-> malloc_success]

\* a zero-initialized allocator: (sa_stack_allocator){}
SaZero == [buffer |-> NULL, capacity |-> 0, marker |-> 0]

\* the struct sa_release leaves (the action frees the buffer)
sa_release(memory) == SaZero

\* mutant: an allocation that would fill the buffer is refused
\* mutant: the marker is kept even
sa_alloc_aligned(memory, size) ==
    IF (memory.marker + size) % Word > memory.capacity
    THEN [mem |-> memory, ret |-> NULL]
    ELSE [mem |-> [memory EXCEPT !.marker = (memory.marker + size + (size % 2)) % Word],
          ret |-> memory.buffer + memory.marker]

sa_alloc_strict(memory, size) ==
    IF (memory.marker + size) % Word >= memory.capacity
    THEN [mem |-> memory, ret |-> NULL]
    ELSE [mem |-> [memory EXCEPT !.marker = (memory.marker + size) % Word],
          ret |-> memory.buffer + memory.marker]

sa_alloc(memory, size) ==
    IF (memory.marker + size) % Word > memory.capacity
    THEN [mem |-> memory, ret |-> NULL]
    ELSE [mem |-> [memory EXCEPT !.marker = (memory.marker + size) % Word],
          ret |-> memory.buffer + memory.marker]

sa_clear(memory) == [memory EXCEPT !.marker = 0]

sa_get_marker(memory) == memory.marker

sa_clear_marker(memory, marker) ==
    IF marker < memory.marker
    THEN [memory EXCEPT !.marker = marker]
    ELSE memory

\* mutant: the size is taken off without the check
sa_pop_unclamped(memory, size) ==
    [memory EXCEPT !.marker = (memory.marker - size) % Word]

sa_pop(memory, size) ==
    IF size > memory.marker
    THEN [memory EXCEPT !.marker = 0]
    ELSE [memory EXCEPT !.marker = (memory.marker - size) % Word]

\* mutant: the address dsa_peek_top computes, with no size taken off
sa_peek_unsized(memory, size) ==
    IF memory.marker < size
    THEN NULL
    ELSE memory.buffer + memory.marker

sa_peek(memory, size) ==
    IF memory.marker < size
    THEN NULL
    ELSE memory.buffer + memory.marker - size

\* SA_FOREACH(type, identifier, memory), size being sizeof(type)
SA_FOREACH(memory, size) ==
    Loop(memory.buffer, sa_peek(memory, size), 1, size, MaxSteps)

SA_FOREACH_REVERSE(memory, size) ==
    Loop(sa_peek(memory, size), memory.buffer, -1, size, MaxSteps)

sa_available_memory(memory) == (memory.capacity - memory.marker) % Word

sa_used_memory(memory) == memory.marker

\* ------------------------------------------------------------------- state
\* ------------------------------------- int-indexed double stack allocator
\* (src/double_stack_allocator.c: struct double_stack_allocator, whose top is
\* the index of the last free byte; the functions whose names the header-only
\* allocator uses as well carry the prefix legacy_ here)

\* int dsa_init_with_size(memory, size), p being what malloc(size) returns
dsa_init_with_size(memory, size, p) ==
    LET malloc_success == IF p # NULL THEN 1 ELSE 0
    IN [mem |-> [buffer |-> p, capacity |-> malloc_success * size,
                 top |-> malloc_success * size - 1, bottom |-> 0],
        ret |-> malloc_success]

LegacyZero == [buffer |-> NULL, capacity |-> 0, top |-> -1, bottom |-> 0]

legacy_dsa_release(memory) == LegacyZero

legacy_dsa_alloc_top(memory, size) ==
    IF memory.top - size < memory.bottom
    THEN [mem |-> memory, ret |-> NULL]
    ELSE LET top == memory.top - size
         IN [mem |-> [memory EXCEPT !.top = top], ret |-> memory.buffer + top + 1]

legacy_dsa_alloc_bottom(memory, size) ==
    IF memory.bottom + size > memory.top
    THEN [mem |-> memory, ret |-> NULL]
    ELSE [mem |-> [memory EXCEPT !.bottom = memory.bottom + size],
          ret |-> memory.buffer + memory.bottom]

legacy_dsa_available_memory(memory) == memory.top + 1 - memory.bottom

legacy_dsa_used_memory(memory) ==
    memory.bottom + (memory.capacity - (memory.top + 1))

legacy_dsa_get_top_marker(memory) == memory.top

legacy_dsa_get_bottom_marker(memory) == memory.bottom

dsa_free_top(memory) == [memory EXCEPT !.top = memory.capacity - 1]

dsa_free_bottom(memory) == [memory EXCEPT !.bottom = 0]

dsa_free_top_marker(memory, marker) ==
    IF marker > memory.top /\ marker < memory.capacity
    THEN [memory EXCEPT !.top = marker]
    ELSE memory

dsa_free_bottom_marker(memory, marker) ==
    IF marker < memory.bottom /\ marker >= 0
    THEN [memory EXCEPT !.bottom = marker]
    ELSE memory

VARIABLES
    target,  \* which allocator this program uses: "dsa", "sa", both, "legacy"
    legacy,  \* the double_stack_allocator struct of the int-indexed allocator
    dsa,     \* the dsa_double_stack_allocator struct
    sa,      \* the sa_stack_allocator struct
    heap,    \* the blocks malloc returned that are not freed yet
    call,    \* the last call: function, argument, returned value, struct
             \* before, and the pointers it handed to free
    probe,   \* which of the observers below this run keeps
    blocks,  \* observer "blocks": the blocks returned and not rolled back
    prev,    \* observer "pairs_<side>": the allocations just made on a side
    mark,    \* observer "marker": the marker taken and the memory in use then
    cleared, \* observer "clear": the sides cleared since the last change
    stale,   \* observer "stale": the marker taken last and whether it is invalid
    last,    \* observer "last": the call before the last call
    lifo,    \* observer "lifo_<side>": the allocations standing on a side
    twin,    \* target "both": the last call on the stack allocator, `call`
             \* being the same call on the double stack allocator
    iter,    \* the addresses the last call, an iteration, ran its body with
    ctx      \* target "contexts": whether the callers hold a lock around each
             \* call, and where each execution context is in its allocation

program == <<target, dsa, sa, legacy, heap, call, twin, iter, ctx>>
observers == <<probe, blocks, prev, mark, cleared, lifo, stale, last>>
vars == <<target, dsa, sa, heap, call, probe, blocks, prev, mark, cleared, lifo,
          twin, iter, stale, legacy, last, ctx>>

NoPrev == [set |-> FALSE, ret |-> NULL, size |-> 0, paired |-> FALSE,
           edge |-> NULL, mixed |-> FALSE, since |-> FALSE]
NoMark == [side |-> "none", m |-> 0, used |-> 0, avail |-> 0]
NoCleared == [sides |-> {}, was |-> {}]
BothSides == {"bottom", "top"}
NoLifo == [ok |-> TRUE, stack |-> <<>>]
NoStale == [side |-> "none", m |-> 0, invalid |-> FALSE]
NoIter == [visited |-> <<>>, more |-> FALSE]
\* the execution contexts that share one allocator
Contexts == {1, 2}
Idle == [pc |-> "idle", op |-> "none", size |-> 0, local |-> 0, ret |-> NULL,
         returned |-> FALSE]
NoCtx == [locked |-> TRUE, th |-> [t \in Contexts |-> Idle]]
NoTwin == [op |-> "none", arg |-> 0, ret |-> 0, pre |-> SaZero, freed |-> <<>>]

Allocs == {"dsa_alloc_bottom", "dsa_alloc_top", "sa_alloc"}
BottomAllocs == {"dsa_alloc_bottom", "sa_alloc"}
Constructors == {"dsa_new", "dsa_init_with_capacity", "sa_new", "sa_init_with_capacity"}
Releases == {"dsa_release", "sa_release"}
\* the functions that read the struct and write nothing
Queries == {"dsa_get_top_marker", "dsa_get_bottom_marker", "dsa_peek_top",
            "dsa_peek_bottom", "dsa_available_memory", "dsa_used_memory",
            "sa_get_marker", "sa_peek", "sa_available_memory", "sa_used_memory"}
BottomOps == {"dsa_alloc_bottom", "dsa_clear_bottom", "dsa_clear_bottom_marker",
              "dsa_peek_bottom", "dsa_get_bottom_marker"}
TopOps == {"dsa_alloc_top", "dsa_clear_top", "dsa_clear_top_marker",
           "dsa_peek_top", "dsa_get_top_marker"}
Pops == {"dsa_pop_bottom", "dsa_pop_top", "sa_pop"}
BottomPeeks == {"dsa_peek_bottom", "sa_peek"}

\* the bytes in use on a side of the struct m (a stack allocator has no top side)
SideUsed(m, side) ==
    IF "marker" \in DOMAIN m
    THEN IF side = "bottom" THEN m.marker ELSE 0
    ELSE IF side = "bottom" THEN m.bottom ELSE m.capacity - m.top

\* the boundaries of the allocator in use, as addresses
BottomAddr == IF target = "dsa" THEN dsa.buffer + dsa.bottom ELSE sa.buffer + sa.marker
TopAddr == IF target = "dsa" THEN dsa.buffer + dsa.top ELSE sa.buffer + sa.capacity

\* observer "blocks" after call c, with the boundaries lo (bottom) and hi (top)
\* the call left: a successful allocation appends its block, construction and
\* release drop every block, and whatever else the call was, the blocks it
\* made available again (those reaching past a boundary) are dropped
NextBlocks(b, c, lo, hi) ==
    LET Kept(x) == IF x.side = "bottom" THEN x.hi <= lo ELSE x.lo >= hi
    IN IF c.op \in Constructors \cup Releases THEN <<>>
       ELSE IF c.op \in Allocs
       THEN IF c.ret # NULL /\ c.arg > 0
            THEN Append(b, [lo |-> c.ret, hi |-> c.ret + c.arg,
                            side |-> IF c.op = "dsa_alloc_top" THEN "top"
                                                               ELSE "bottom"])
            ELSE b
       ELSE SelectSeq(b, Kept)

\* observer "pairs_bottom" / "pairs_top" after call c, for one side: the
\* latest allocation that succeeded there (ret, size), and when it came right
\* after another successful one on that side (paired), that one's end
\* (bottom: p1 + n) or start (top: p1) as `edge`; `mixed`: the other side
\* allocated between the two; `since`: the other side allocated since the
\* latest.  The other side's calls and the queries leave the record; a failed
\* allocation or any other call on the side empties it.
NextPrev(p, c, side) ==
    LET own == IF side = "bottom" THEN {"dsa_alloc_bottom"} ELSE {"dsa_alloc_top"}
        others == IF side = "bottom" THEN TopOps ELSE BottomOps
    IN IF c.op \in own
       THEN IF c.ret # NULL
            THEN [set |-> TRUE, ret |-> c.ret, size |-> c.arg,
                  paired |-> p.set,
                  edge |-> IF ~p.set THEN NULL
                           ELSE IF side = "bottom" THEN p.ret + p.size
                           ELSE p.ret,
                  mixed |-> p.set /\ p.since,
                  since |-> FALSE]
            ELSE NoPrev
       ELSE IF c.op \in others
       THEN IF c.op \in Allocs /\ c.ret # NULL /\ p.set
            THEN [p EXCEPT !.since = TRUE]
            ELSE p
       ELSE IF c.op \in Queries THEN p
       ELSE NoPrev

\* observer "marker" after call c (used, avail: the memory in use and
\* available after it): a get-marker call starts it; allocations on that side
\* and resets to that very marker keep it; every other call ends it
NextMark(k, c, used, avail) ==
    IF c.op = "dsa_get_bottom_marker"
    THEN [side |-> "bottom", m |-> c.ret, used |-> used, avail |-> avail]
    ELSE IF c.op = "dsa_get_top_marker"
    THEN [side |-> "top", m |-> c.ret, used |-> used, avail |-> avail]
    ELSE IF c.op = "sa_get_marker"
    THEN [side |-> "sa", m |-> c.ret, used |-> used, avail |-> avail]
    ELSE IF \/ k.side = "bottom" /\ c.op = "dsa_alloc_bottom"
            \/ k.side = "bottom" /\ c.op = "dsa_clear_bottom_marker" /\ c.arg = k.m
            \/ k.side = "top" /\ c.op = "dsa_alloc_top"
            \/ k.side = "top" /\ c.op = "dsa_clear_top_marker" /\ c.arg = k.m
            \/ k.side = "sa" /\ c.op = "sa_alloc"
            \/ k.side = "sa" /\ c.op = "sa_clear_marker" /\ c.arg = k.m
    THEN k
    ELSE NoMark

\* observer "clear" after call c: the sides cleared by dsa_clear_bottom and
\* dsa_clear_top (sa_clear clears the one side of the stack allocator, whose
\* top is its capacity) with nothing but queries since, and what that was
\* before the call
NextCleared(k, c) ==
    [sides |-> IF c.op = "dsa_clear_bottom" THEN k.sides \cup {"bottom"}
               ELSE IF c.op = "dsa_clear_top" THEN k.sides \cup {"top"}
               ELSE IF c.op = "sa_clear" THEN BothSides
               ELSE IF c.op \in Queries THEN k.sides
               ELSE {},
     was |-> k.sides]

\* observer "lifo_bottom" / "lifo_top" after call c, for one side, which has
\* `was` bytes in use before the call and `now` after it: the allocations of
\* positive sizes made on the side since it was empty, the latest last, each
\* taken off again by a pop of its size.  Calls that leave the side's boundary
\* keep the record; a side that was rolled back any other way is followed
\* again (ok) once it is empty.
NextLifo(k, c, side, was, now) ==
    LET allocs == IF side = "bottom" THEN BottomAllocs ELSE {"dsa_alloc_top"}
        pops == IF side = "bottom" THEN {"dsa_pop_bottom", "sa_pop"}
                                   ELSE {"dsa_pop_top"}
        n == Len(k.stack)
    IN IF c.op \in Constructors \cup Releases THEN NoLifo
       ELSE IF c.op \in allocs /\ c.ret # NULL /\ c.arg > 0
       THEN IF k.ok
            THEN [k EXCEPT !.stack = Append(@, [ret |-> c.ret, size |-> c.arg])]
            ELSE k
       ELSE IF c.op \in pops /\ k.ok /\ n > 0 /\ c.arg = k.stack[n].size
       THEN [k EXCEPT !.stack = SubSeq(@, 1, n - 1)]
       ELSE IF now = was THEN k
       ELSE IF now = 0 THEN NoLifo
       ELSE [ok |-> FALSE, stack |-> <<>>]

\* observer "stale" after call c: the marker the last dsa_get_bottom_marker,
\* dsa_get_top_marker or sa_get_marker returned, and whether it has become
\* invalid as the documentation of the clears has it: its side was cleared
\* (dsa_clear_bottom, dsa_clear_top, sa_clear), or its side was reset to a
\* marker below it (bottom, stack allocator) or above it (top)
NextStale(k, c) ==
    IF c.op \in Constructors \cup Releases THEN NoStale
    ELSE IF c.op = "dsa_get_bottom_marker"
    THEN [side |-> "bottom", m |-> c.ret, invalid |-> FALSE]
    ELSE IF c.op = "dsa_get_top_marker"
    THEN [side |-> "top", m |-> c.ret, invalid |-> FALSE]
    ELSE IF c.op = "sa_get_marker"
    THEN [side |-> "sa", m |-> c.ret, invalid |-> FALSE]
    ELSE IF \/ k.side = "bottom" /\ c.op = "dsa_clear_bottom"
            \/ k.side = "top" /\ c.op = "dsa_clear_top"
            \/ k.side = "sa" /\ c.op = "sa_clear"
            \/ /\ k.side = "bottom"
               /\ c.op = "dsa_clear_bottom_marker"
               /\ c.arg < k.m
               /\ c.arg < c.pre.bottom
            \/ /\ k.side = "sa"
               /\ c.op = "sa_clear_marker"
               /\ c.arg < k.m
               /\ c.arg < c.pre.marker
            \/ /\ k.side = "top"
               /\ c.op = "dsa_clear_top_marker"
               /\ c.arg > k.m
               /\ c.arg > c.pre.top
               /\ c.arg <= c.pre.capacity
    THEN [k EXCEPT !.invalid = TRUE]
    ELSE k

\* the observers follow the call just made
Observe ==
    /\ iter' = NoIter
    /\ probe' = probe
    /\ blocks' = IF probe = "blocks"
                 THEN NextBlocks(blocks, call', BottomAddr', TopAddr')
                 ELSE blocks
    /\ prev' = IF probe = "pairs_bottom" THEN NextPrev(prev, call', "bottom")
               ELSE IF probe = "pairs_top" THEN NextPrev(prev, call', "top")
               ELSE prev
    /\ mark' = IF probe = "marker"
               THEN NextMark(mark, call',
                             IF target = "dsa" THEN dsa_used_memory(dsa')
                                               ELSE sa_used_memory(sa'),
                             IF target = "dsa" THEN dsa_available_memory(dsa')
                                               ELSE sa_available_memory(sa'))
               ELSE mark
    /\ cleared' = IF probe = "clear" THEN NextCleared(cleared, call') ELSE cleared
    /\ stale' = IF probe = "stale" THEN NextStale(stale, call') ELSE stale
    /\ last' = IF probe = "last" THEN call ELSE last
    /\ lifo' = IF probe = "lifo_bottom"
               THEN NextLifo(lifo, call', "bottom", SideUsed(call'.pre, "bottom"),
                             IF target = "dsa" THEN SideUsed(dsa', "bottom")
                                               ELSE SideUsed(sa', "bottom"))
               ELSE IF probe = "lifo_top"
               THEN NextLifo(lifo, call', "top", SideUsed(call'.pre, "top"),
                             IF target = "dsa" THEN SideUsed(dsa', "top")
                                               ELSE SideUsed(sa', "top"))
               ELSE lifo

\* a call on the double stack allocator: it leaves the struct mem and returns ret
DsaCall(op, arg, mem, ret, freed) ==
    /\ target = "dsa"
    /\ dsa' = mem
    /\ call' = [op |-> op, arg |-> arg, ret |-> ret, pre |-> dsa, freed |-> freed]
    /\ UNCHANGED <<target, sa, twin, legacy, ctx>>

\* a call on the stack allocator
SaCall(op, arg, mem, ret, freed) ==
    /\ target = "sa"
    /\ sa' = mem
    /\ call' = [op |-> op, arg |-> arg, ret |-> ret, pre |-> sa, freed |-> freed]
    /\ UNCHANGED <<target, dsa, twin, legacy, ctx>>

\* ----------------------------------------------------------------- actions
Call_dsa_new(capacity) ==
    /\ DsaCall("dsa_new", capacity, dsa_new(CallerBase, capacity), 0, <<>>)
    /\ UNCHANGED heap
    /\ Observe

\* dsa_new_with_capacity is this call on a fresh struct, returned by value
Call_dsa_init_with_capacity(capacity) ==
    \E p \in MallocResults(heap) :
        LET r == dsa_init_with_capacity(dsa, capacity, p)
        IN /\ DsaCall("dsa_init_with_capacity", capacity, r.mem, r.ret, <<>>)
           /\ heap' = IF p = NULL THEN heap ELSE heap \cup {p}
           /\ Observe

Call_dsa_release ==
    /\ DsaCall("dsa_release", 0, dsa_release(dsa), 0, <<dsa.buffer>>)
    /\ heap' = Free(heap, dsa.buffer)
    /\ Observe

Call_dsa_alloc_top(size) ==
    LET r == dsa_alloc_top(dsa, size)
    IN /\ DsaCall("dsa_alloc_top", size, r.mem, r.ret, <<>>)
       /\ UNCHANGED heap
       /\ Observe

Call_dsa_alloc_bottom(size) ==
    LET r == dsa_alloc_bottom(dsa, size)
    IN /\ DsaCall("dsa_alloc_bottom", size, r.mem, r.ret, <<>>)
       /\ UNCHANGED heap
       /\ Observe

Call_dsa_clear_top ==
    /\ DsaCall("dsa_clear_top", 0, dsa_clear_top(dsa), 0, <<>>)
    /\ UNCHANGED heap
    /\ Observe

Call_dsa_clear_bottom ==
    /\ DsaCall("dsa_clear_bottom", 0, dsa_clear_bottom(dsa), 0, <<>>)
    /\ UNCHANGED heap
    /\ Observe

Call_dsa_get_top_marker ==
    /\ DsaCall("dsa_get_top_marker", 0, dsa, dsa_get_top_marker(dsa), <<>>)
    /\ UNCHANGED heap
    /\ Observe

Call_dsa_get_bottom_marker ==
    /\ DsaCall("dsa_get_bottom_marker", 0, dsa, dsa_get_bottom_marker(dsa), <<>>)
    /\ UNCHANGED heap
    /\ Observe

Call_dsa_clear_top_marker(marker) ==
    /\ DsaCall("dsa_clear_top_marker", marker, dsa_clear_top_marker(dsa, marker), 0, <<>>)
    /\ UNCHANGED heap
    /\ Observe

Call_dsa_clear_bottom_marker(marker) ==
    /\ DsaCall("dsa_clear_bottom_marker", marker, dsa_clear_bottom_marker(dsa, marker), 0, <<>>)
    /\ UNCHANGED heap
    /\ Observe

Call_dsa_peek_top(size) ==
    /\ DsaCall("dsa_peek_top", size, dsa, dsa_peek_top(dsa, size), <<>>)
    /\ UNCHANGED heap
    /\ Observe

Call_dsa_peek_bottom(size) ==
    /\ DsaCall("dsa_peek_bottom", size, dsa, dsa_peek_bottom(dsa, size), <<>>)
    /\ UNCHANGED heap
    /\ Observe

Call_dsa_pop_bottom(size) ==
    /\ DsaCall("dsa_pop_bottom", size, dsa_pop_bottom(dsa, size), 0, <<>>)
    /\ UNCHANGED heap
    /\ Observe

Call_dsa_pop_top(size) ==
    /\ DsaCall("dsa_pop_top", size, dsa_pop_top(dsa, size), 0, <<>>)
    /\ UNCHANGED heap
    /\ Observe

Call_dsa_available_memory ==
    /\ DsaCall("dsa_available_memory", 0, dsa, dsa_available_memory(dsa), <<>>)
    /\ UNCHANGED heap
    /\ Observe

Call_dsa_used_memory ==
    /\ DsaCall("dsa_used_memory", 0, dsa, dsa_used_memory(dsa), <<>>)
    /\ UNCHANGED heap
    /\ Observe

Call_sa_new(capacity) ==
    /\ SaCall("sa_new", capacity, sa_new(CallerBase, capacity), 0, <<>>)
    /\ UNCHANGED heap
    /\ Observe

\* sa_new_with_capacity is this call on a fresh struct, returned by value
Call_sa_init_with_capacity(capacity) ==
    \E p \in MallocResults(heap) :
        LET r == sa_init_with_capacity(sa, capacity, p)
        IN /\ SaCall("sa_init_with_capacity", capacity, r.mem, r.ret, <<>>)
           /\ heap' = IF p = NULL THEN heap ELSE heap \cup {p}
           /\ Observe

Call_sa_release ==
    /\ SaCall("sa_release", 0, sa_release(sa), 0, <<sa.buffer>>)
    /\ heap' = Free(heap, sa.buffer)
    /\ Observe

Call_sa_alloc(size) ==
    LET r == sa_alloc(sa, size)
    IN /\ SaCall("sa_alloc", size, r.mem, r.ret, <<>>)
       /\ UNCHANGED heap
       /\ Observe

Call_sa_clear ==
    /\ SaCall("sa_clear", 0, sa_clear(sa), 0, <<>>)
    /\ UNCHANGED heap
    /\ Observe

Call_sa_get_marker ==
    /\ SaCall("sa_get_marker", 0, sa, sa_get_marker(sa), <<>>)
    /\ UNCHANGED heap
    /\ Observe

Call_sa_clear_marker(marker) ==
    /\ SaCall("sa_clear_marker", marker, sa_clear_marker(sa, marker), 0, <<>>)
    /\ UNCHANGED heap
    /\ Observe

Call_sa_pop(size) ==
    /\ SaCall("sa_pop", size, sa_pop(sa, size), 0, <<>>)
    /\ UNCHANGED heap
    /\ Observe

Call_sa_peek(size) ==
    /\ SaCall("sa_peek", size, sa, sa_peek(sa, size), <<>>)
    /\ UNCHANGED heap
    /\ Observe

Call_sa_available_memory ==
    /\ SaCall("sa_available_memory", 0, sa, sa_available_memory(sa), <<>>)
    /\ UNCHANGED heap
    /\ Observe

Call_sa_used_memory ==
    /\ SaCall("sa_used_memory", 0, sa, sa_used_memory(sa), <<>>)
    /\ UNCHANGED heap
    /\ Observe

\* the iterations: the struct is read, the body runs with each address
Call_DSA_FOREACH_BOTTOM(size) ==
    /\ DsaCall("DSA_FOREACH_BOTTOM", size, dsa, 0, <<>>)
    /\ iter' = DSA_FOREACH_BOTTOM(dsa, size)
    /\ UNCHANGED <<heap, observers>>

Call_DSA_FOREACH_BOTTOM_REVERSE(size) ==
    /\ DsaCall("DSA_FOREACH_BOTTOM_REVERSE", size, dsa, 0, <<>>)
    /\ iter' = DSA_FOREACH_BOTTOM_REVERSE(dsa, size)
    /\ UNCHANGED <<heap, observers>>

Call_DSA_FOREACH_TOP(size) ==
    /\ DsaCall("DSA_FOREACH_TOP", size, dsa, 0, <<>>)
    /\ iter' = DSA_FOREACH_TOP(dsa, size)
    /\ UNCHANGED <<heap, observers>>

Call_DSA_FOREACH_TOP_REVERSE(size) ==
    /\ DsaCall("DSA_FOREACH_TOP_REVERSE", size, dsa, 0, <<>>)
    /\ iter' = DSA_FOREACH_TOP_REVERSE(dsa, size)
    /\ UNCHANGED <<heap, observers>>

Call_SA_FOREACH(size) ==
    /\ SaCall("SA_FOREACH", size, sa, 0, <<>>)
    /\ iter' = SA_FOREACH(sa, size)
    /\ UNCHANGED <<heap, observers>>

Call_SA_FOREACH_REVERSE(size) ==
    /\ SaCall("SA_FOREACH_REVERSE", size, sa, 0, <<>>)
    /\ iter' = SA_FOREACH_REVERSE(sa, size)
    /\ UNCHANGED <<heap, observers>>

\* A call on the int-indexed allocator (target "legacy")
LegacyCall(op, arg, mem, ret, freed) ==
    /\ target = "legacy"
    /\ legacy' = mem
    /\ call' = [op |-> op, arg |-> arg, ret |-> ret, pre |-> legacy, freed |-> freed]
    /\ UNCHANGED <<target, dsa, sa, twin, iter, observers, ctx>>

Call_dsa_init_with_size(size) ==
    \E p \in MallocResults(heap) :
        LET r == dsa_init_with_size(legacy, size, p)
        IN /\ LegacyCall("dsa_init_with_size", size, r.mem, r.ret, <<>>)
           /\ heap' = IF p = NULL THEN heap ELSE heap \cup {p}

Call_legacy_dsa_release ==
    /\ LegacyCall("legacy_dsa_release", 0, legacy_dsa_release(legacy), 0,
                  <<legacy.buffer>>)
    /\ heap' = Free(heap, legacy.buffer)

Call_legacy_dsa_alloc_top(size) ==
    LET r == legacy_dsa_alloc_top(legacy, size)
    IN /\ LegacyCall("legacy_dsa_alloc_top", size, r.mem, r.ret, <<>>)
       /\ UNCHANGED heap

Call_legacy_dsa_alloc_bottom(size) ==
    LET r == legacy_dsa_alloc_bottom(legacy, size)
    IN /\ LegacyCall("legacy_dsa_alloc_bottom", size, r.mem, r.ret, <<>>)
       /\ UNCHANGED heap

Call_legacy_dsa_available_memory ==
    /\ LegacyCall("legacy_dsa_available_memory", 0, legacy,
                  legacy_dsa_available_memory(legacy), <<>>)
    /\ UNCHANGED heap

Call_legacy_dsa_used_memory ==
    /\ LegacyCall("legacy_dsa_used_memory", 0, legacy,
                  legacy_dsa_used_memory(legacy), <<>>)
    /\ UNCHANGED heap

Call_legacy_dsa_get_top_marker ==
    /\ LegacyCall("legacy_dsa_get_top_marker", 0, legacy,
                  legacy_dsa_get_top_marker(legacy), <<>>)
    /\ UNCHANGED heap

Call_legacy_dsa_get_bottom_marker ==
    /\ LegacyCall("legacy_dsa_get_bottom_marker", 0, legacy,
                  legacy_dsa_get_bottom_marker(legacy), <<>>)
    /\ UNCHANGED heap

Call_dsa_free_top ==
    /\ LegacyCall("dsa_free_top", 0, dsa_free_top(legacy), 0, <<>>)
    /\ UNCHANGED heap

Call_dsa_free_bottom ==
    /\ LegacyCall("dsa_free_bottom", 0, dsa_free_bottom(legacy), 0, <<>>)
    /\ UNCHANGED heap

Call_dsa_free_top_marker(marker) ==
    /\ LegacyCall("dsa_free_top_marker", marker,
                  dsa_free_top_marker(legacy, marker), 0, <<>>)
    /\ UNCHANGED heap

Call_dsa_free_bottom_marker(marker) ==
    /\ LegacyCall("dsa_free_bottom_marker", marker,
                  dsa_free_bottom_marker(legacy, marker), 0, <<>>)
    /\ UNCHANGED heap

\* Two execution contexts on one double stack allocator (target "contexts").
\* dsa_alloc_bottom and dsa_alloc_top run as the statements of the source, one
\* at a time: the bounds check, the read of the boundary and the write of the
\* boundary.  With ctx.locked the callers hold a lock around each call: a
\* context enters a function only while no other context is inside one.

\* mutant: no bounds check
alloc_rejects_never(memory, op, size) == FALSE

\* if(memory->bottom + size > memory->top) return NULL;   (dsa_alloc_bottom)
\* if(memory->top < memory->bottom + size) return NULL;   (dsa_alloc_top)
alloc_rejects(memory, op, size) ==
    IF op = "dsa_alloc_bottom"
    THEN (memory.bottom + size) % Word > memory.top
    ELSE memory.top < (memory.bottom + size) % Word

ContextStep(t, th, mem) ==
    /\ target = "contexts"
    /\ ctx' = [ctx EXCEPT !.th[t] = th]
    /\ dsa' = mem
    /\ UNCHANGED <<target, sa, legacy, heap, call, twin, iter, observers>>

\* context t calls the function, once
ContextBegin(t, op, size) ==
    /\ ctx.th[t].pc = "idle"
    /\ ~ctx.th[t].returned
    /\ ctx.locked => \A u \in Contexts : ctx.th[u].pc = "idle"
    /\ ContextStep(t, [pc |-> "check", op |-> op, size |-> size, local |-> 0,
                       ret |-> NULL, returned |-> FALSE], dsa)

\* the bounds check
ContextCheck(t) ==
    LET th == ctx.th[t]
    IN /\ th.pc = "check"
       /\ IF alloc_rejects(dsa, th.op, th.size)
          THEN ContextStep(t, [th EXCEPT !.pc = "idle", !.returned = TRUE], dsa)
          ELSE ContextStep(t, [th EXCEPT !.pc = "read"], dsa)

\* the read of the boundary: memory->bottom of ptr = buffer + memory->bottom
\* and of memory->bottom += size, memory->top of memory->top -= size
ContextRead(t) ==
    LET th == ctx.th[t]
    IN /\ th.pc = "read"
       /\ ContextStep(t, [th EXCEPT !.pc = "write",
                                    !.local = IF th.op = "dsa_alloc_bottom"
                                              THEN dsa.bottom ELSE dsa.top], dsa)

\* the write of the boundary and the return.  The two accesses are a data
\* race: the value written is computed from the boundary as it was read
\* before, or as it is read again now.
ContextWrite(t) ==
    LET th == ctx.th[t]
    IN /\ th.pc = "write"
       /\ IF th.op = "dsa_alloc_bottom"
          THEN \E base \in {th.local, dsa.bottom} :
                  ContextStep(t, [th EXCEPT !.pc = "idle", !.returned = TRUE,
                                           !.ret = dsa.buffer + th.local],
                              [dsa EXCEPT !.bottom = (base + th.size) % Word])
          ELSE \E base \in {th.local, dsa.top} :
                  LET top == (base - th.size) % Word
                  IN ContextStep(t, [th EXCEPT !.pc = "idle", !.returned = TRUE,
                                              !.ret = dsa.buffer + top],
                                 [dsa EXCEPT !.top = top])

\* The same call on both allocators (target "both"): dop on the double stack
\* allocator, which leaves dmem and returns dret, and sop on the stack
\* allocator, which leaves smem and returns sret.
BothCall(dop, sop, arg, dmem, dret, smem, sret, freed) ==
    /\ target = "both"
    /\ dsa' = dmem
    /\ sa' = smem
    /\ call' = [op |-> dop, arg |-> arg, ret |-> dret, pre |-> dsa,
                freed |-> IF freed THEN <<dsa.buffer>> ELSE <<>>]
    /\ twin' = [op |-> sop, arg |-> arg, ret |-> sret, pre |-> sa,
                freed |-> IF freed THEN <<sa.buffer>> ELSE <<>>]
    /\ UNCHANGED <<target, observers, iter, legacy, ctx>>

Both_new(capacity) ==
    /\ BothCall("dsa_new", "sa_new", capacity,
                dsa_new(CallerBase, capacity), 0,
                sa_new(TwinCallerBase, capacity), 0, FALSE)
    /\ UNCHANGED heap

\* the two calls of malloc succeed or fail together: the allocators compared
\* are of the same capacity
Both_init_with_capacity(capacity) ==
    \E p \in MallocResults(heap) :
        LET q == IF p = NULL \/ TwinHeapBase \in heap THEN NULL ELSE TwinHeapBase
            d == dsa_init_with_capacity(dsa, capacity, IF q = NULL THEN NULL ELSE p)
            t == sa_init_with_capacity(sa, capacity, q)
        IN /\ BothCall("dsa_init_with_capacity", "sa_init_with_capacity",
                       capacity, d.mem, d.ret, t.mem, t.ret, FALSE)
           /\ heap' = IF q = NULL THEN heap ELSE heap \cup {p, q}

Both_release ==
    /\ BothCall("dsa_release", "sa_release", 0,
                dsa_release(dsa), 0, sa_release(sa), 0, TRUE)
    /\ heap' = Free(Free(heap, dsa.buffer), sa.buffer)

Both_alloc(size) ==
    LET d == dsa_alloc_bottom(dsa, size)
        t == sa_alloc(sa, size)
    IN /\ BothCall("dsa_alloc_bottom", "sa_alloc", size,
                   d.mem, d.ret, t.mem, t.ret, FALSE)
       /\ UNCHANGED heap

Both_clear ==
    /\ BothCall("dsa_clear_bottom", "sa_clear", 0,
                dsa_clear_bottom(dsa), 0, sa_clear(sa), 0, FALSE)
    /\ UNCHANGED heap

Both_get_marker ==
    /\ BothCall("dsa_get_bottom_marker", "sa_get_marker", 0,
                dsa, dsa_get_bottom_marker(dsa), sa, sa_get_marker(sa), FALSE)
    /\ UNCHANGED heap

Both_clear_marker(marker) ==
    /\ BothCall("dsa_clear_bottom_marker", "sa_clear_marker", marker,
                dsa_clear_bottom_marker(dsa, marker), 0,
                sa_clear_marker(sa, marker), 0, FALSE)
    /\ UNCHANGED heap

Both_peek(size) ==
    /\ BothCall("dsa_peek_bottom", "sa_peek", size,
                dsa, dsa_peek_bottom(dsa, size), sa, sa_peek(sa, size), FALSE)
    /\ UNCHANGED heap

Both_available_memory ==
    /\ BothCall("dsa_available_memory", "sa_available_memory", 0,
                dsa, dsa_available_memory(dsa), sa, sa_available_memory(sa), FALSE)
    /\ UNCHANGED heap

Both_used_memory ==
    /\ BothCall("dsa_used_memory", "sa_used_memory", 0,
                dsa, dsa_used_memory(dsa), sa, sa_used_memory(sa), FALSE)
    /\ UNCHANGED heap

\* ----------------------------------------------------------- specification
\* The program holds one allocator, constructed over the caller's buffer or
\* with malloc (which may fail); the other struct stays zero-initialized.
\* The two allocators share no state, so a program using both is two such
\* programs side by side.
InitProgram ==
    /\ target \in {"dsa", "sa"}
    /\ legacy = LegacyZero
    /\ ctx = NoCtx
    /\ twin = NoTwin
    /\ iter = NoIter
    /\ \E capacity \in Capacities :
        \/ /\ target = "dsa"
           /\ sa = SaZero
           /\ \/ /\ dsa = dsa_new(CallerBase, capacity)
                 /\ heap = {}
                 /\ call = [op |-> "dsa_new", arg |-> capacity, ret |-> 0,
                            pre |-> DsaZero, freed |-> <<>>]
              \/ \E p \in MallocResults({}) :
                    LET r == dsa_init_with_capacity(DsaZero, capacity, p)
                    IN /\ dsa = r.mem
                       /\ heap = IF p = NULL THEN {} ELSE {p}
                       /\ call = [op |-> "dsa_init_with_capacity",
                                  arg |-> capacity, ret |-> r.ret,
                                  pre |-> DsaZero, freed |-> <<>>]
        \/ /\ target = "sa"
           /\ dsa = DsaZero
           /\ \/ /\ sa = sa_new(CallerBase, capacity)
                 /\ heap = {}
                 /\ call = [op |-> "sa_new", arg |-> capacity, ret |-> 0,
                            pre |-> SaZero, freed |-> <<>>]
              \/ \E p \in MallocResults({}) :
                    LET r == sa_init_with_capacity(SaZero, capacity, p)
                    IN /\ sa = r.mem
                       /\ heap = IF p = NULL THEN {} ELSE {p}
                       /\ call = [op |-> "sa_init_with_capacity",
                                  arg |-> capacity, ret |-> r.ret,
                                  pre |-> SaZero, freed |-> <<>>]

InitObservers(which) ==
    /\ probe = which
    /\ blocks = <<>>
    /\ prev = NoPrev
    /\ mark = NoMark
    /\ cleared = NoCleared
    /\ lifo = NoLifo
    /\ stale = NoStale
    /\ last = NoTwin

\* no addition of the call wraps: the one sum the allocations take is
\* boundary + size
NoWrap(size) ==
    IF target = "dsa" THEN dsa.bottom + size < Word ELSE sa.marker + size < Word

NextDsa ==
    \/ \E capacity \in Capacities : Call_dsa_new(capacity)
    \/ \E capacity \in Capacities : Call_dsa_init_with_capacity(capacity)
    \/ Call_dsa_release
    \/ \E size \in Args : NoWrap(size) /\ Call_dsa_alloc_top(size)
    \/ \E size \in Args : NoWrap(size) /\ Call_dsa_alloc_bottom(size)
    \/ Call_dsa_clear_top
    \/ Call_dsa_clear_bottom
    \/ Call_dsa_get_top_marker
    \/ Call_dsa_get_bottom_marker
    \/ \E marker \in SizeT : Call_dsa_clear_top_marker(marker)
    \/ \E marker \in SizeT : Call_dsa_clear_bottom_marker(marker)
    \/ \E size \in Args : Call_dsa_peek_top(size)
    \/ \E size \in Args : Call_dsa_peek_bottom(size)
    \/ Call_dsa_available_memory
    \/ Call_dsa_used_memory

NextSa ==
    \/ \E capacity \in Capacities : Call_sa_new(capacity)
    \/ \E capacity \in Capacities : Call_sa_init_with_capacity(capacity)
    \/ Call_sa_release
    \/ \E size \in Args : NoWrap(size) /\ Call_sa_alloc(size)
    \/ Call_sa_clear
    \/ Call_sa_get_marker
    \/ \E marker \in SizeT : Call_sa_clear_marker(marker)
    \/ \E size \in Args : Call_sa_pop(size)
    \/ \E size \in Args : Call_sa_peek(size)
    \/ Call_sa_available_memory
    \/ Call_sa_used_memory

Next == NextDsa \/ NextSa

\* the pops of the double stack allocator
NextDsaPop ==
    \/ \E size \in Args : Call_dsa_pop_bottom(size)
    \/ \E size \in Args : Call_dsa_pop_top(size)

NextPop == NextDsa \/ NextDsaPop \/ NextSa

Init == InitProgram /\ InitObservers("blocks")
Spec == Init /\ [][Next]_vars

\* the double stack allocator, watched on one of its sides
InitPairs ==
    /\ InitProgram
    /\ target = "dsa"
    /\ \E which \in {"pairs_bottom", "pairs_top"} : InitObservers(which)
SpecPairs == InitPairs /\ [][NextDsa]_vars

InitMarker == InitProgram /\ InitObservers("marker")
SpecMarker == InitMarker /\ [][Next]_vars

\* either allocator, with the latest top allocation watched
InitPeek == InitProgram /\ InitObservers("pairs_top")
SpecPeek == InitPeek /\ [][Next]_vars

\* either allocator with the pops, the allocations standing on one side watched
InitPop ==
    /\ InitProgram
    /\ \E which \in {"lifo_bottom", "lifo_top"} :
          /\ target = "sa" => which = "lifo_bottom"
          /\ InitObservers(which)
SpecPop == InitPop /\ [][NextPop]_vars

InitClear == InitProgram /\ InitObservers("clear")
SpecClear == InitClear /\ [][Next]_vars

\* the int-indexed allocator, after dsa_init_with_size
InitLegacy ==
    /\ target = "legacy"
    /\ ctx = NoCtx
    /\ dsa = DsaZero
    /\ sa = SaZero
    /\ twin = NoTwin
    /\ iter = NoIter
    /\ InitObservers("none")
    /\ \E size \in Capacities, p \in MallocResults({}) :
          LET r == dsa_init_with_size(LegacyZero, size, p)
          IN /\ legacy = r.mem
             /\ heap = IF p = NULL THEN {} ELSE {p}
             /\ call = [op |-> "dsa_init_with_size", arg |-> size,
                        ret |-> r.ret, pre |-> LegacyZero, freed |-> <<>>]

NextLegacy ==
    \/ \E size \in Capacities : Call_dsa_init_with_size(size)
    \/ Call_legacy_dsa_release
    \/ \E size \in Args : Call_legacy_dsa_alloc_top(size)
    \/ \E size \in Args : Call_legacy_dsa_alloc_bottom(size)
    \/ Call_legacy_dsa_available_memory
    \/ Call_legacy_dsa_used_memory
    \/ Call_legacy_dsa_get_top_marker
    \/ Call_legacy_dsa_get_bottom_marker
    \/ Call_dsa_free_top
    \/ Call_dsa_free_bottom
    \/ \E marker \in -1 .. MaxCapacity : Call_dsa_free_top_marker(marker)
    \/ \E marker \in -1 .. MaxCapacity : Call_dsa_free_bottom_marker(marker)

SpecLegacy == InitLegacy /\ [][NextLegacy]_vars

\* two execution contexts that allocate once each from one double stack
\* allocator over a caller buffer, with a lock around each call or without
InitContexts ==
    /\ target = "contexts"
    /\ sa = SaZero
    /\ legacy = LegacyZero
    /\ twin = NoTwin
    /\ iter = NoIter
    /\ heap = {}
    /\ InitObservers("none")
    /\ \E capacity \in Capacities :
          /\ dsa = dsa_new(CallerBase, capacity)
          /\ call = [op |-> "dsa_new", arg |-> capacity, ret |-> 0,
                     pre |-> DsaZero, freed |-> <<>>]
    /\ \E locked \in BOOLEAN : ctx = [NoCtx EXCEPT !.locked = locked]

\* the sizes asked for wrap no sum: a boundary is at most capacity when a
\* bounds check passes
NextContexts ==
    \E t \in Contexts :
        \/ \E size \in Args :
              /\ dsa.capacity + size < Word
              /\ ContextBegin(t, "dsa_alloc_bottom", size)
        \/ \E size \in Args :
              /\ dsa.capacity + size < Word
              /\ ContextBegin(t, "dsa_alloc_top", size)
        \/ ContextCheck(t)
        \/ ContextRead(t)
        \/ ContextWrite(t)

SpecContexts == InitContexts /\ [][NextContexts]_vars

\* either allocator, the marker taken last followed
InitStale == InitProgram /\ InitObservers("stale")
SpecStale == InitStale /\ [][Next]_vars

\* the stack allocator, the call before the last call kept
InitLast ==
    /\ InitProgram
    /\ target = "sa"
    /\ InitObservers("last")
SpecLast == InitLast /\ [][NextSa]_vars

\* the functions of either allocator, the allocations with every size a
\* size_t holds
NextWrap ==
    \/ NextDsa
    \/ NextSa
    \/ \E size \in SizeT : Call_dsa_alloc_top(size)
    \/ \E size \in SizeT : Call_dsa_alloc_bottom(size)
    \/ \E size \in SizeT : Call_sa_alloc(size)

InitWrap == InitProgram /\ InitObservers("none")
SpecWrap == InitWrap /\ [][NextWrap]_vars

\* the same, and the pops of the double stack allocator
NextPopWrap == NextWrap \/ NextDsaPop
SpecPopWrap == InitWrap /\ [][NextPopWrap]_vars

\* the stack allocator, its allocations, peeks and pops with every size a
\* size_t holds, the allocations standing followed as long as no more than two
\* of them stand
InitLifoWrap ==
    /\ InitProgram
    /\ target = "sa"
    /\ InitObservers("lifo_bottom")

NextLifoWrap ==
    /\ Len(lifo.stack) <= 2
    /\ \/ NextSa
       \/ \E size \in SizeT : Call_sa_alloc(size)
       \/ \E size \in SizeT : Call_sa_peek(size)
       \/ \E size \in SizeT : Call_sa_pop(size)

SpecLifoWrap == InitLifoWrap /\ [][NextLifoWrap]_vars

\* the functions of either allocator and the iterations over it
NextForEach ==
    \/ \E size \in ElemSizes : Call_DSA_FOREACH_BOTTOM(size)
    \/ \E size \in ElemSizes : Call_DSA_FOREACH_BOTTOM_REVERSE(size)
    \/ \E size \in ElemSizes : Call_DSA_FOREACH_TOP(size)
    \/ \E size \in ElemSizes : Call_DSA_FOREACH_TOP_REVERSE(size)
    \/ \E size \in ElemSizes : Call_SA_FOREACH(size)
    \/ \E size \in ElemSizes : Call_SA_FOREACH_REVERSE(size)

NextIter == NextDsa \/ NextSa \/ NextForEach
InitIter == InitProgram /\ InitObservers("none")
SpecIter == InitIter /\ [][NextIter]_vars

\* a stack allocator and a double stack allocator of the same capacity, called
\* alike: the stack allocator's functions and the bottom functions
InitBoth ==
    /\ target = "both"
    /\ legacy = LegacyZero
    /\ ctx = NoCtx
    /\ iter = NoIter
    /\ InitObservers("none")
    /\ \E capacity \in Capacities :
          \/ /\ dsa = dsa_new(CallerBase, capacity)
             /\ sa = sa_new(TwinCallerBase, capacity)
             /\ heap = {}
             /\ call = [op |-> "dsa_new", arg |-> capacity, ret |-> 0,
                        pre |-> DsaZero, freed |-> <<>>]
             /\ twin = [op |-> "sa_new", arg |-> capacity, ret |-> 0,
                        pre |-> SaZero, freed |-> <<>>]
          \/ \E p \in {NULL, HeapBase} :
                LET q == IF p = NULL THEN NULL ELSE TwinHeapBase
                    d == dsa_init_with_capacity(DsaZero, capacity, p)
                    t == sa_init_with_capacity(SaZero, capacity, q)
                IN /\ dsa = d.mem
                   /\ sa = t.mem
                   /\ heap = {p, q} \ {NULL}
                   /\ call = [op |-> "dsa_init_with_capacity", arg |-> capacity,
                              ret |-> d.ret, pre |-> DsaZero, freed |-> <<>>]
                   /\ twin = [op |-> "sa_init_with_capacity", arg |-> capacity,
                              ret |-> t.ret, pre |-> SaZero, freed |-> <<>>]

NextBoth ==
    \/ \E capacity \in Capacities : Both_new(capacity)
    \/ \E capacity \in Capacities : Both_init_with_capacity(capacity)
    \/ Both_release
    \/ \E size \in SizeT : Both_alloc(size)
    \/ Both_clear
    \/ Both_get_marker
    \/ \E marker \in SizeT : Both_clear_marker(marker)
    \/ \E size \in Args : Both_peek(size)
    \/ Both_available_memory
    \/ Both_used_memory

SpecBoth == InitBoth /\ [][NextBoth]_vars

\* ------------------------------------------------------------------ claims
\* the allocator in use, and the call's view of it
Mem == IF target = "dsa" THEN dsa ELSE sa
IsSa(m) == "marker" \in DOMAIN m
BottomOf(m) == IF IsSa(m) THEN m.marker ELSE m.bottom
TopOf(m) == IF IsSa(m) THEN m.capacity ELSE m.top
UsedOf(m) == IF IsSa(m) THEN sa_used_memory(m) ELSE dsa_used_memory(m)
AvailOf(m) == IF IsSa(m) THEN sa_available_memory(m) ELSE dsa_available_memory(m)

\* C1: in the double stack allocator, after any sequence of calls (arbitrary
\* markers, sizes that wrap no addition), 0 <= bottom <= top <= capacity.
C1_BoundariesOrdered ==
    /\ 0 <= dsa.bottom
    /\ dsa.bottom <= dsa.top
    /\ dsa.top <= dsa.capacity

\* a top allocation has just filled the arena, the bottom side being in use
C1_Witness ==
    /\ call.op = "dsa_alloc_top"
    /\ call.ret # NULL
    /\ call.arg > 0
    /\ dsa.bottom > 0
    /\ dsa.bottom = dsa.top

\* C2: a block returned by a successful allocation lies inside the buffer and
\* inside the region that was free right before the call; the bottom-used and
\* the top-used regions do not overlap; and no two blocks that were returned
\* and not rolled back since overlap.
C2_BlocksDisjoint ==
    /\ (call.op \in Allocs /\ call.ret # NULL) =>
          /\ call.pre.buffer <= call.ret
          /\ call.ret + call.arg <= call.pre.buffer + call.pre.capacity
          /\ call.pre.buffer + BottomOf(call.pre) <= call.ret
          /\ call.ret + call.arg <= call.pre.buffer + TopOf(call.pre)
    /\ BottomOf(Mem) <= TopOf(Mem)
    /\ \A i, j \in 1 .. Len(blocks) :
          i # j => \/ blocks[i].hi <= blocks[j].lo
                   \/ blocks[j].hi <= blocks[i].lo
    /\ \A i \in 1 .. Len(blocks) :
          IF blocks[i].side = "bottom"
          THEN Mem.buffer <= blocks[i].lo /\ blocks[i].hi <= BottomAddr
          ELSE TopAddr <= blocks[i].lo /\ blocks[i].hi <= Mem.buffer + Mem.capacity

\* blocks from both sides are live and the allocation just made met the
\* other side
C2_Witness ==
    /\ call.op \in Allocs
    /\ call.ret # NULL
    /\ Len(blocks) >= 3
    /\ \E i, j \in 1 .. Len(blocks) :
          blocks[i].side = "bottom" /\ blocks[j].side = "top"
    /\ BottomAddr = TopAddr

\* C3: dsa_alloc_bottom(size) (sa_alloc(size), top read as capacity) returns
\* null exactly when bottom + size > top; otherwise it returns buffer + the
\* bottom before the call, bottom grows by size, used memory grows and
\* available memory shrinks by size.
C3_AllocBottom ==
    call.op \in BottomAllocs =>
        LET b == BottomOf(call.pre)
            t == TopOf(call.pre)
        IN /\ (call.ret = NULL) <=> (b + call.arg > t)
           /\ ~(b + call.arg > t) =>
                 /\ call.ret = call.pre.buffer + b
                 /\ BottomOf(Mem) = b + call.arg
                 /\ TopOf(Mem) = t
                 /\ UsedOf(Mem) = UsedOf(call.pre) + call.arg
                 /\ AvailOf(Mem) = AvailOf(call.pre) - call.arg

\* what holds of C3 where the buffer is not null
C3_AllocBottom_LiveBuffer ==
    call.pre.buffer # NULL => C3_AllocBottom

\* C4: dsa_alloc_top(size) returns null exactly when top - size < bottom;
\* otherwise top is decreased by size and the address returned is buffer + the
\* new top: the block is [new top, old top).
C4_AllocTop ==
    call.op = "dsa_alloc_top" =>
        LET b == call.pre.bottom
            t == call.pre.top
        IN /\ (call.ret = NULL) <=> (t - call.arg < b)
           /\ ~(t - call.arg < b) =>
                 /\ dsa.top = t - call.arg
                 /\ dsa.bottom = b
                 /\ call.ret = call.pre.buffer + dsa.top
                 /\ call.ret + call.arg = call.pre.buffer + t

\* what holds of C4 where the buffer is not null
C4_AllocTop_LiveBuffer ==
    call.pre.buffer # NULL => C4_AllocTop

\* C5: when an allocation returns null, buffer, capacity, bottom and top
\* (marker) are as before the call.
C5_FailureChangesNothing ==
    (call.op \in Allocs /\ call.ret = NULL) => Mem = call.pre

\* an allocation of a positive size failed on a live buffer with memory in use
C5_Witness ==
    /\ call.op \in Allocs
    /\ call.ret = NULL
    /\ call.arg > 0
    /\ call.pre.buffer # NULL
    /\ BottomOf(call.pre) > 0
    /\ BottomOf(call.pre) < TopOf(call.pre)

C7_ZeroSizeSucceeds ==
    (call.op \in Allocs /\ call.arg = 0) =>
        /\ call.ret # NULL
        /\ Mem = call.pre

\* what holds of C7 where the buffer is not null
C7_ZeroSize_LiveBuffer ==
    call.pre.buffer # NULL => C7_ZeroSizeSucceeds

C9_MarkerRoundTrip ==
    /\ (call.op = "dsa_clear_bottom_marker" /\ mark.side = "bottom") =>
          /\ dsa.bottom = mark.m
          /\ dsa_used_memory(dsa) = mark.used
          /\ dsa_available_memory(dsa) = mark.avail
    /\ (call.op = "dsa_clear_top_marker" /\ mark.side = "top") =>
          /\ dsa.top = mark.m
          /\ dsa_used_memory(dsa) = mark.used
          /\ dsa_available_memory(dsa) = mark.avail
    /\ (call.op = "sa_clear_marker" /\ mark.side = "sa") =>
          /\ sa.marker = mark.m
          /\ sa_used_memory(sa) = mark.used
          /\ sa_available_memory(sa) = mark.avail

\* a top marker taken with the top side empty, reset to after top allocations
C9_Witness ==
    /\ call.op = "dsa_clear_top_marker"
    /\ mark.side = "top"
    /\ mark.m = dsa.capacity
    /\ call.pre.top < mark.m
    /\ dsa.bottom > 0

\* C10: dsa_clear_bottom_marker(m) sets bottom = m if and only if
\* 0 <= m < bottom and changes nothing otherwise; dsa_clear_top_marker(m) sets
\* top = m if and only if top < m <= capacity and changes nothing otherwise.
\* So no reset increases used memory or moves a boundary toward the other
\* side.
C10_ResetDirection ==
    /\ call.op = "dsa_clear_bottom_marker" =>
          dsa = IF 0 <= call.arg /\ call.arg < call.pre.bottom
                THEN [call.pre EXCEPT !.bottom = call.arg]
                ELSE call.pre
    /\ call.op = "dsa_clear_top_marker" =>
          dsa = IF call.pre.top < call.arg /\ call.arg <= call.pre.capacity
                THEN [call.pre EXCEPT !.top = call.arg]
                ELSE call.pre
    /\ call.op \in {"dsa_clear_bottom_marker", "dsa_clear_top_marker"} =>
          /\ dsa_used_memory(dsa) <= dsa_used_memory(call.pre)
          /\ dsa.bottom <= call.pre.bottom
          /\ dsa.top >= call.pre.top

\* a top marker beyond the capacity was ignored while the top side was in use
C10_Witness ==
    /\ call.op = "dsa_clear_top_marker"
    /\ call.arg > call.pre.capacity
    /\ call.pre.top < call.pre.capacity
    /\ dsa = call.pre

\* C11: dsa_clear_bottom() sets bottom = 0 and dsa_clear_top() sets
\* top = capacity, whatever the state, each leaving everything else as it was;
\* once both were called (in either order) dsa_available_memory() is capacity
\* and dsa_used_memory() is 0, and an allocation of the full capacity, from
\* either side, then succeeds.
C11_ClearBoth ==
    /\ call.op = "dsa_clear_bottom" => dsa = [call.pre EXCEPT !.bottom = 0]
    /\ call.op = "dsa_clear_top" =>
          dsa = [call.pre EXCEPT !.top = call.pre.capacity]
    /\ (target = "dsa" /\ cleared.sides = BothSides) =>
          /\ dsa_available_memory(dsa) = dsa.capacity
          /\ dsa_used_memory(dsa) = 0
    /\ (/\ call.op \in {"dsa_alloc_bottom", "dsa_alloc_top"}
        /\ cleared.was = BothSides
        /\ call.arg = call.pre.capacity) => call.ret # NULL

\* what holds of C11 where the buffer is not null
C11_ClearBoth_LiveBuffer ==
    call.pre.buffer # NULL => C11_ClearBoth

\* C12: in a reachable state with k bytes available an allocation of exactly
\* k bytes, from the bottom or from the top, succeeds and leaves 0 bytes
\* available; with 0 bytes available every allocation of a positive size, from
\* either side, returns null and leaves the struct as it was.
C12_Exhaustion ==
    call.op \in Allocs =>
        /\ call.arg = AvailOf(call.pre) =>
              /\ call.ret # NULL
              /\ AvailOf(Mem) = 0
        /\ (AvailOf(call.pre) = 0 /\ call.arg > 0) =>
              /\ call.ret = NULL
              /\ Mem = call.pre

\* what holds of C12 where the buffer is not null
C12_Exhaustion_LiveBuffer ==
    call.pre.buffer # NULL => C12_Exhaustion

C14_LifoPeekPop ==
    LET side == IF probe = "lifo_bottom" THEN "bottom" ELSE "top"
        peeks == IF side = "bottom" THEN BottomPeeks ELSE {"dsa_peek_top"}
        n == Len(lifo.stack)
    IN lifo.ok =>
        /\ n = 0 => SideUsed(Mem, side) = 0
        /\ call.op \in peeks =>
              /\ (n = 0 /\ call.arg > 0) => call.ret = NULL
              /\ (n >= 1 /\ call.arg = lifo.stack[n].size) =>
                    call.ret = lifo.stack[n].ret
              /\ (/\ side = "bottom"
                  /\ n >= 2
                  /\ call.arg = lifo.stack[n].size + lifo.stack[n - 1].size) =>
                    call.ret = lifo.stack[n - 1].ret

\* sa_pop has just taken the latest of two allocations off again, the first
\* one standing
C14_Witness ==
    /\ call.op = "sa_pop"
    /\ call.arg > 0
    /\ lifo.ok
    /\ Len(lifo.stack) = 1
    /\ call.pre.marker = lifo.stack[1].size + call.arg
    /\ sa.marker = lifo.stack[1].size

\* C15: after sa_pop(size) the marker is max(0, marker before - size): it is
\* never below 0 nor above the marker before, buffer and capacity are as
\* before, and a pop of more bytes than are allocated leaves the allocator
\* empty.
C15_PopSaturates ==
    call.op = "sa_pop" =>
        /\ sa.marker = IF call.pre.marker - call.arg > 0
                       THEN call.pre.marker - call.arg
                       ELSE 0
        /\ sa.marker >= 0
        /\ sa.marker <= call.pre.marker
        /\ sa.buffer = call.pre.buffer
        /\ sa.capacity = call.pre.capacity
        /\ call.arg > call.pre.marker =>
              /\ sa_used_memory(sa) = 0
              /\ sa_available_memory(sa) = sa.capacity

\* more bytes were popped than were allocated
C15_Witness ==
    /\ call.op = "sa_pop"
    /\ call.pre.marker > 0
    /\ call.arg > call.pre.marker
    /\ sa.marker = 0

\* C16: dsa_pop_bottom(size) sets bottom = max(0, bottom - size) and
\* dsa_pop_top(size) sets top = min(capacity, top + size); each leaves the other
\* boundary, the buffer and the capacity as they were, and
\* 0 <= bottom <= top <= capacity holds afterwards.
C16_DsaPopSaturates ==
    /\ call.op = "dsa_pop_bottom" =>
          dsa = [call.pre EXCEPT !.bottom = IF call.pre.bottom - call.arg > 0
                                            THEN call.pre.bottom - call.arg
                                            ELSE 0]
    /\ call.op = "dsa_pop_top" =>
          dsa = [call.pre EXCEPT !.top = IF call.pre.top + call.arg < call.pre.capacity
                                         THEN call.pre.top + call.arg
                                         ELSE call.pre.capacity]
    /\ call.op \in {"dsa_pop_bottom", "dsa_pop_top"} =>
          /\ 0 <= dsa.bottom
          /\ dsa.bottom <= dsa.top
          /\ dsa.top <= dsa.capacity

\* more bytes were popped from the top than it held, the bottom in use
C16_Witness ==
    /\ call.op = "dsa_pop_top"
    /\ call.pre.top < call.pre.capacity
    /\ call.arg > call.pre.capacity - call.pre.top
    /\ dsa.top = dsa.capacity
    /\ dsa.bottom > 0

\* C17: dsa_release / sa_release hand the buffer to the free hook only when
\* the allocator owns it, the buffer being one that the malloc hook returned
\* to dsa_init_with_capacity / sa_init_with_capacity; the buffer of an
\* allocator made with dsa_new / sa_new over the caller's memory is never
\* handed to the free hook.
C17_ReleaseOwnership ==
    call.op \in Releases =>
        \A i \in 1 .. Len(call.freed) :
            /\ call.freed[i] # CallerBase
            /\ call.freed[i] # NULL => call.freed[i] \in HeapAddrs

\* what holds of C17: the owned buffers are handed to the free hook
C17_OwnedBufferFreed ==
    (call.op \in Releases /\ call.pre.buffer \in HeapAddrs) =>
        /\ call.freed = <<call.pre.buffer>>
        /\ call.pre.buffer \notin heap

\* C18: after dsa_release / sa_release, from any state, buffer is null,
\* capacity, bottom and top (marker) are 0 and so are the available and the
\* used memory; a release of a released or zero-initialized allocator leaves
\* it as it is and hands nothing but null to the free hook.  A buffer from the
\* malloc hook that the allocator holds is live, release hands the free hook
\* the buffer it holds, so an owned buffer is freed at most once.
C18_ReleaseIdempotent ==
    /\ call.op \in Releases =>
          /\ Mem = IF target = "dsa" THEN DsaZero ELSE SaZero
          /\ Mem.buffer = NULL
          /\ AvailOf(Mem) = 0
          /\ UsedOf(Mem) = 0
          /\ call.freed = <<call.pre.buffer>>
          /\ call.pre.buffer = NULL => Mem = call.pre
    /\ Mem.buffer \in HeapAddrs => Mem.buffer \in heap

\* an allocator that holds no buffer (released before, or never given one)
\* was released, with no block of the malloc hook live
C18_Witness ==
    /\ call.op = "dsa_release"
    /\ call.pre = DsaZero
    /\ call.freed = <<NULL>>
    /\ dsa = DsaZero
    /\ heap = {}

\* C19: when the malloc hook returns null (the buffer stored is null),
\* dsa_init_with_capacity / sa_init_with_capacity return 0 and leave buffer
\* null and capacity, bottom and top (marker) 0.  On that struct every
\* allocation and every peek of a positive size returns null, the available
\* and the used memory are 0, and a release hands the free hook null and
\* leaves the struct.
C19_ConstructionFailure ==
    LET Zero == IF target = "dsa" THEN DsaZero ELSE SaZero
        Inits == {"dsa_init_with_capacity", "sa_init_with_capacity"}
        Peeks == {"dsa_peek_bottom", "dsa_peek_top", "sa_peek"}
        Counts == {"dsa_available_memory", "dsa_used_memory",
                   "sa_available_memory", "sa_used_memory"}
    IN /\ call.op \in Inits =>
             /\ (call.ret = 0) <=> (Mem.buffer = NULL)
             /\ call.ret = 0 => Mem = Zero
       /\ call.pre = Zero =>
             /\ (call.op \in Allocs \cup Peeks /\ call.arg > 0) =>
                   /\ call.ret = NULL
                   /\ Mem = Zero
             /\ call.op \in Counts => call.ret = 0
             /\ call.op \in Releases =>
                   /\ call.freed = <<NULL>>
                   /\ Mem = Zero

\* a construction of positive capacity failed on a struct that was in use
C19_Witness ==
    /\ call.op = "dsa_init_with_capacity"
    /\ call.arg > 0
    /\ call.ret = 0
    /\ call.pre.bottom > 0
    /\ dsa = DsaZero

\* C20: a construction with capacity C that succeeds, over the caller's
\* buffer (dsa_new, sa_new) or with the malloc hook (dsa_init_with_capacity,
\* sa_init_with_capacity returning non-zero), leaves bottom = 0, top = C and
\* capacity = C (stack allocator: marker = 0), so that the available memory
\* is C and the used memory is 0.
C20_Construction ==
    (\/ call.op \in {"dsa_new", "sa_new"}
     \/ /\ call.op \in {"dsa_init_with_capacity", "sa_init_with_capacity"}
        /\ call.ret # 0) =>
        /\ Mem.buffer # NULL
        /\ Mem.capacity = call.arg
        /\ BottomOf(Mem) = 0
        /\ TopOf(Mem) = call.arg
        /\ AvailOf(Mem) = call.arg
        /\ UsedOf(Mem) = 0

\* the malloc hook gave the buffer for a struct that was in use on both sides
C20_Witness ==
    /\ call.op = "dsa_init_with_capacity"
    /\ call.ret # 0
    /\ call.arg > 0
    /\ call.pre.bottom > 0
    /\ call.pre.top < call.pre.capacity
    /\ dsa.buffer \in heap
    /\ dsa.top = call.arg

\* C21: the same calls made on a stack allocator (sa_alloc, sa_clear,
\* sa_get_marker, sa_clear_marker, sa_peek, sa_available_memory,
\* sa_used_memory, sa_release) and on a double stack allocator of the same
\* capacity (the bottom functions) keep marker = bottom and top = capacity,
\* and at every step both succeed or both fail, the addresses returned are at
\* the same offset of their buffers, and the markers and the available and
\* used memory returned are the same.
C21_Refinement ==
    LET Pointers == {"dsa_alloc_bottom", "dsa_peek_bottom"}
        Values == {"dsa_get_bottom_marker", "dsa_available_memory",
                   "dsa_used_memory", "dsa_init_with_capacity"}
    IN /\ sa.marker = dsa.bottom
       /\ dsa.top = dsa.capacity
       /\ sa.capacity = dsa.capacity
       /\ sa_available_memory(sa) = dsa_available_memory(dsa)
       /\ sa_used_memory(sa) = dsa_used_memory(dsa)
       /\ call.op \in Pointers =>
             /\ (call.ret = NULL) <=> (twin.ret = NULL)
             /\ call.ret # NULL =>
                   call.ret - call.pre.buffer = twin.ret - twin.pre.buffer
       /\ call.op \in Values => call.ret = twin.ret

\* an allocation that fills both buffers succeeded on both, memory being in
\* use already
C21_Witness ==
    /\ call.op = "dsa_alloc_bottom"
    /\ twin.op = "sa_alloc"
    /\ call.arg > 0
    /\ call.pre.bottom > 0
    /\ call.ret # NULL
    /\ twin.ret # NULL
    /\ sa.marker = sa.capacity
    /\ dsa.bottom = dsa.top

\* C22: SA_FOREACH, SA_FOREACH_REVERSE, DSA_FOREACH_BOTTOM and
\* DSA_FOREACH_BOTTOM_REVERSE over elements of s bytes, in a reachable state
\* where bottom is a multiple of s (an empty, a zero-capacity and a released
\* allocator included): the loop ends after exactly bottom / s steps, on the
\* offsets 0, s, ..., bottom - s in that order (forward) or the opposite one
\* (reverse), on no address outside [buffer, buffer + bottom), with no step
\* when nothing is allocated, and leaves the struct as it was.
C22_BottomIteration ==
    LET b == BottomOf(call.pre)
        s == call.arg
        n == Len(iter.visited)
    IN (/\ call.op \in {"SA_FOREACH", "SA_FOREACH_REVERSE",
                        "DSA_FOREACH_BOTTOM", "DSA_FOREACH_BOTTOM_REVERSE"}
        /\ b % s = 0) =>
          /\ ~iter.more
          /\ n = b \div s
          /\ \A i \in 1 .. n :
                /\ iter.visited[i] =
                      IF call.op \in {"SA_FOREACH", "DSA_FOREACH_BOTTOM"}
                      THEN call.pre.buffer + (i - 1) * s
                      ELSE call.pre.buffer + b - i * s
                /\ call.pre.buffer <= iter.visited[i]
                /\ iter.visited[i] + s <= call.pre.buffer + b
          /\ Mem = call.pre

\* what holds of C22 where the buffer is not null
C22_BottomIteration_LiveBuffer ==
    call.pre.buffer # NULL => C22_BottomIteration

\* C23: DSA_FOREACH_TOP and DSA_FOREACH_TOP_REVERSE over elements of s bytes,
\* in a reachable state where capacity - top is a multiple of s: the loop ends
\* after exactly (capacity - top) / s steps, on addresses of
\* [buffer + top, buffer + capacity) only, from the offset capacity - s down to
\* top (forward) or from top up to capacity - s (reverse), with no step when
\* the top is empty.
C23_TopIteration ==
    LET t == call.pre.top
        c == call.pre.capacity
        s == call.arg
        n == Len(iter.visited)
    IN (/\ call.op \in {"DSA_FOREACH_TOP", "DSA_FOREACH_TOP_REVERSE"}
        /\ (c - t) % s = 0) =>
          /\ ~iter.more
          /\ n = (c - t) \div s
          /\ \A i \in 1 .. n :
                /\ iter.visited[i] =
                      IF call.op = "DSA_FOREACH_TOP"
                      THEN call.pre.buffer + c - i * s
                      ELSE call.pre.buffer + t + (i - 1) * s
                /\ call.pre.buffer + t <= iter.visited[i]
                /\ iter.visited[i] + s <= call.pre.buffer + c
          /\ dsa = call.pre

\* what holds of C23: the iterations over a top that is in use
C23_TopIteration_InUse ==
    (/\ call.op \in {"DSA_FOREACH_TOP", "DSA_FOREACH_TOP_REVERSE"}
     /\ call.pre.top = call.pre.capacity) \/ C23_TopIteration

\* C26: with sizes and boundaries of WordBits bits that wrap around, for every
\* size a size_t holds: an allocation (dsa_alloc_bottom, dsa_alloc_top,
\* sa_alloc) of more than the available memory returns NULL, one that returns
\* a block does not leave less memory in use than before, and after the call
\* bottom <= top <= capacity.
C26_WrapAround ==
    call.op \in Allocs =>
       /\ call.arg > AvailOf(call.pre) => call.ret = NULL
       /\ call.ret # NULL => UsedOf(Mem) >= UsedOf(call.pre)
       /\ BottomOf(Mem) <= TopOf(Mem)
       /\ TopOf(Mem) <= Mem.capacity

\* what holds of C26: the allocations whose size wraps no sum or difference
C26_WrapAround_SmallSizes ==
    (/\ BottomOf(call.pre) + call.arg < Word
     /\ BottomOf(call.pre) <= TopOf(call.pre)
     /\ TopOf(call.pre) <= call.pre.capacity) => C26_WrapAround

\* C24: on the struct a release leaves (buffer null, capacity, bottom and top
\* 0), every function but a construction, with any argument, leaves the struct
\* as it is, and every allocation and every peek of a positive size returns
\* NULL; every other struct is changed by a release, so no other state is
\* kept by every function.
C24_ReleasedTerminal ==
    LET Zero == IF target = "dsa" THEN DsaZero ELSE SaZero
    IN /\ (call.pre = Zero /\ call.op \notin Constructors \cup {"none"}) =>
             /\ Mem = Zero
             /\ (/\ call.op \in Allocs \cup {"dsa_peek_bottom", "dsa_peek_top", "sa_peek"}
                 /\ call.arg > 0) => call.ret = NULL
       /\ (call.op \in Releases /\ call.pre # Zero) => Mem # call.pre

\* a top allocation of a positive size was made on the released struct
C24_Witness ==
    /\ call.op = "dsa_alloc_top"
    /\ call.arg > 0
    /\ call.pre = DsaZero
    /\ call.ret = NULL
    /\ dsa = DsaZero

\* C27: a bottom function (dsa_alloc_bottom, dsa_clear_bottom,
\* dsa_clear_bottom_marker, dsa_peek_bottom, dsa_get_bottom_marker) leaves top
\* as it was and a top function (dsa_alloc_top, dsa_clear_top,
\* dsa_clear_top_marker, dsa_peek_top, dsa_get_top_marker) leaves bottom as it
\* was; only a construction or a release changes buffer or capacity; the
\* markers, the peeks and the available / used memory change nothing.
C27_Frame ==
    /\ call.op \in BottomOps => dsa.top = call.pre.top
    /\ call.op \in TopOps => dsa.bottom = call.pre.bottom
    /\ call.op \notin Constructors \cup Releases \cup {"none"} =>
          /\ Mem.buffer = call.pre.buffer
          /\ Mem.capacity = call.pre.capacity
    /\ call.op \in Queries => Mem = call.pre

\* a bottom function moved bottom while the top side was in use
C27_Witness ==
    /\ call.op = "dsa_clear_bottom"
    /\ call.pre.bottom > 0
    /\ call.pre.top < call.pre.capacity
    /\ dsa.bottom = 0
    /\ dsa.top = call.pre.top

\* C25: a marker the documentation declares invalid (one taken before its
\* side was cleared, or before its side was reset to a marker below it, for
\* the top above it) is ignored by dsa_clear_bottom_marker,
\* dsa_clear_top_marker and sa_clear_marker: the call leaves the struct as it
\* was, whatever was allocated since the marker became invalid.
C25_InvalidMarkerIgnored ==
    (/\ stale.invalid
     /\ call.arg = stale.m
     /\ \/ stale.side = "bottom" /\ call.op = "dsa_clear_bottom_marker"
        \/ stale.side = "top" /\ call.op = "dsa_clear_top_marker"
        \/ stale.side = "sa" /\ call.op = "sa_clear_marker") => Mem = call.pre

\* what holds of C25: an invalid marker is ignored as long as its side has not
\* grown past it again
C25_InvalidMarkerIgnored_NotRegrown ==
    (\/ stale.side \in {"bottom", "sa"} /\ BottomOf(call.pre) <= stale.m
     \/ stale.side = "top" /\ call.pre.top >= stale.m) => C25_InvalidMarkerIgnored

\* C28: in the int-indexed allocator of src/double_stack_allocator.c,
\* dsa_alloc_bottom(n) and dsa_alloc_top(n) return a block exactly when
\* n <= dsa_available_memory(); right after dsa_init_with_size(C) got its
\* buffer, an allocation of C bytes from either end returns a block and leaves
\* dsa_available_memory() = 0 and dsa_used_memory() = C.
C28_LegacyExhaustion ==
    call.op \in {"legacy_dsa_alloc_bottom", "legacy_dsa_alloc_top"} =>
       /\ call.ret # NULL <=> call.arg <= legacy_dsa_available_memory(call.pre)
       /\ (/\ call.pre.buffer # NULL
           /\ call.pre.bottom = 0
           /\ call.pre.top = call.pre.capacity - 1
           /\ call.arg = call.pre.capacity) =>
             /\ call.ret # NULL
             /\ legacy_dsa_available_memory(legacy) = 0
             /\ legacy_dsa_used_memory(legacy) = call.pre.capacity

\* what holds of C28: an allocation returns a block exactly when its size is
\* less than dsa_available_memory(), so the last available byte is never
\* given out
C28_LegacyExhaustion_OneLess ==
    call.op \in {"legacy_dsa_alloc_bottom", "legacy_dsa_alloc_top"} =>
       (call.ret # NULL <=> call.arg < legacy_dsa_available_memory(call.pre))

\* C29: on each side, the clear, the reset to the marker of the empty side
\* (0 for the bottom and the stack allocator, capacity for the top) and the pop
\* of exactly the bytes in use on the side leave the same struct: the one
\* before the call with that side empty, the other boundary as it was.  A
\* side is full, that is every allocation of a positive size is rejected,
\* exactly when bottom = top.
C29_ReturnToEmpty ==
    /\ (\/ call.op = "dsa_clear_bottom"
        \/ call.op = "dsa_clear_bottom_marker" /\ call.arg = 0
        \/ call.op = "dsa_pop_bottom" /\ call.arg = call.pre.bottom) =>
          dsa = [call.pre EXCEPT !.bottom = 0]
    /\ (\/ call.op = "dsa_clear_top"
        \/ call.op = "dsa_clear_top_marker" /\ call.arg = call.pre.capacity
        \/ call.op = "dsa_pop_top" /\ call.arg = call.pre.capacity - call.pre.top) =>
          dsa = [call.pre EXCEPT !.top = call.pre.capacity]
    /\ (\/ call.op = "sa_clear"
        \/ call.op = "sa_clear_marker" /\ call.arg = 0
        \/ call.op = "sa_pop" /\ call.arg = call.pre.marker) =>
          sa = [call.pre EXCEPT !.marker = 0]
    /\ (call.op \in Allocs /\ call.arg > 0) =>
          /\ BottomOf(call.pre) = TopOf(call.pre) => call.ret = NULL
          /\ call.arg = 1 => (call.ret = NULL <=> BottomOf(call.pre) = TopOf(call.pre))

\* what holds of C29: the same with allocation sizes that wrap no sum, from a
\* state inside the invariant
C29_ReturnToEmpty_SmallSizes ==
    (/\ BottomOf(call.pre) + (IF call.op \in Allocs THEN call.arg ELSE 0) < Word
     /\ BottomOf(call.pre) <= TopOf(call.pre)
     /\ TopOf(call.pre) <= call.pre.capacity) => C29_ReturnToEmpty

\* C30: sa_pop(n) right after an sa_alloc(n) that returned a block, the sum
\* marker + n not wrapping, leaves buffer, capacity and marker as they were
\* before the allocation; sa_pop(n) with n <= marker leaves what
\* sa_clear_marker(marker - n) leaves.
C30_AllocPopRoundTrip ==
    call.op = "sa_pop" =>
       /\ (/\ last.op = "sa_alloc"
           /\ last.arg = call.arg
           /\ last.ret # NULL
           /\ last.pre.marker + last.arg < Word) => sa = last.pre
       /\ call.arg <= call.pre.marker =>
             sa = sa_clear_marker(call.pre, call.pre.marker - call.arg)

\* a block of a positive size was allocated above another and popped again
C30_Witness ==
    /\ call.op = "sa_pop"
    /\ last.op = "sa_alloc"
    /\ last.arg = call.arg
    /\ last.arg > 0
    /\ last.ret # NULL
    /\ last.pre.marker > 0
    /\ sa = last.pre

\* the blocks the two contexts were returned share a byte
C31_BlocksOverlap ==
    LET a == ctx.th[1]
        b == ctx.th[2]
    IN /\ a.returned /\ a.ret # NULL /\ a.size > 0
       /\ b.returned /\ b.ret # NULL /\ b.size > 0
       /\ a.ret < b.ret + b.size
       /\ b.ret < a.ret + a.size

\* a boundary has passed the other one, or the end of the buffer
C31_BoundariesCrossed == dsa.bottom > dsa.top \/ dsa.top > dsa.capacity

\* C31: when two execution contexts call dsa_alloc_bottom / dsa_alloc_top on
\* one allocator, with sizes that wrap no sum, and each call runs as a whole
\* under a lock of the callers,
\* the boundaries never cross and the blocks the two contexts were returned
\* last never overlap; without the lock, with the bounds check, the read and
\* the write of the boundary as separate steps, a state where the two blocks
\* overlap, and one where bottom > top, is reached.
C31_AtomicUnderLock ==
    (target = "contexts" /\ ctx.locked) =>
       /\ ~C31_BlocksOverlap
       /\ ~C31_BoundariesCrossed

\* under the lock both contexts were returned a block of positive size
C31_WitnessLocked ==
    /\ target = "contexts"
    /\ ctx.locked
    /\ \A t \in Contexts :
          ctx.th[t].returned /\ ctx.th[t].ret # NULL /\ ctx.th[t].size > 0

\* without a lock both contexts were returned a block, and the blocks overlap
C31_Witness ==
    /\ target = "contexts"
    /\ ~ctx.locked
    /\ C31_BlocksOverlap

\* without a lock both calls returned and the boundaries have crossed
C31_WitnessCrossed ==
    /\ target = "contexts"
    /\ ~ctx.locked
    /\ \A t \in Contexts : ctx.th[t].returned /\ ctx.th[t].pc = "idle"
    /\ dsa.bottom > dsa.top

====
